---- MODULE Spec2Model ----
(***************************************************************************)
(* Model of the crawl engine of appsafeguard2:                             *)
(*   server/utils/scan-utils.ts  (class Scanner, runScan)                  *)
(* A URL string is a sequence of tokens ("http:", "//", "a.com", "/",      *)
(* "p1", "#", "f", ...).  The tokens are chosen so that no token is a      *)
(* character prefix of another one; String.startsWith on the text is then  *)
(* exactly the prefix relation on the token sequences.                     *)
(***************************************************************************)
EXTENDS Integers, Sequences, FiniteSets, TLC

\* ------------------------------------------------------------------ bounds

\* largest crawlLimit a scan is started with
MaxBudget == 3
\* longest base list of findings handed to calculateSummary on its own
MaxFindings == 3
\* how many times that base list is repeated (long lists reach the clamp)
MaxRepeat == 5

\* ------------------------------------------------------------- sequences

Range(s) == { s[i] : i \in 1..Len(s) }

NoDuplicates(s) == \A i, j \in 1..Len(s) : s[i] = s[j] => i = j

\* String.prototype.startsWith, on token sequences
StartsWith(s, prefix) ==
    /\ Len(s) >= Len(prefix)
    /\ SubSeq(s, 1, Len(prefix)) = prefix

\* index of the first token of s at or after `from` that lies in S, else Len(s)+1
FirstIdx(s, S, from) ==
    IF \E i \in from..Len(s) : s[i] \in S
    THEN CHOOSE i \in from..Len(s) :
            /\ s[i] \in S
            /\ \A j \in from..(i - 1) : s[j] \notin S
    ELSE Len(s) + 1

\* index of the last token of s that equals t, else 0
LastIdx(s, t) ==
    IF \E i \in 1..Len(s) : s[i] = t
    THEN CHOOSE i \in 1..Len(s) : s[i] = t /\ \A j \in (i + 1)..Len(s) : s[j] # t
    ELSE 0

\* ------------------------------------------------------------------- URLs

Schemes == {"http:", "https:"}

InvalidURL == [ok |-> FALSE]

\* new URL(text): parse an absolute URL.  Throws (ok = FALSE) when the text has
\* no scheme or no host.  pathname is "/" when the text has no path.
ParseURL(s) ==
    IF Len(s) >= 3 /\ s[1] \in Schemes /\ s[2] = "//"
    THEN LET hostEnd == FirstIdx(s, {"/", "#"}, 3)
             fragAt  == FirstIdx(s, {"#"}, 3)
             host    == SubSeq(s, 3, hostEnd - 1)
             path    == SubSeq(s, hostEnd, fragAt - 1)
         IN  IF host = <<>>
             THEN InvalidURL
             ELSE [ok       |-> TRUE,
                   protocol |-> s[1],
                   host     |-> host,
                   pathname |-> IF path = <<>> THEN <<"/">> ELSE path,
                   hash     |-> SubSeq(s, fragAt, Len(s))]
    ELSE InvalidURL

\* URL.href: the serialisation of a parsed URL
Href(u) == <<u.protocol, "//">> \o u.host \o u.pathname \o u.hash

\* new URL(link, base): resolve a reference against the page it was found on
ResolveURL(link, base) ==
    IF link # <<>> /\ link[1] \in Schemes
    THEN ParseURL(link)
    ELSE LET b       == ParseURL(base)
             fragAt  == FirstIdx(link, {"#"}, 1)
             ref     == SubSeq(link, 1, fragAt - 1)
             hash    == SubSeq(link, fragAt, Len(link))
             dir     == SubSeq(b.pathname, 1, LastIdx(b.pathname, "/"))
         IN  IF ~b.ok
             THEN InvalidURL
             ELSE [ok       |-> TRUE,
                   protocol |-> b.protocol,
                   host     |-> b.host,
                   pathname |-> IF ref = <<>> THEN b.pathname
                                ELSE IF ref[1] = "/" THEN ref
                                ELSE dir \o ref,
                   hash     |-> hash]

\* the resource an HTTP GET of the URL text asks for: the normalised URL
\* without its fragment (a fragment is never sent to the server)
PageOf(url) ==
    LET u == ParseURL(url)
    IN  IF u.ok THEN <<u.protocol, "//">> \o u.host \o u.pathname ELSE url


\* ------------------------------------------------- the inputs of a scan

\* seed URLs a scan is asked for: two spellings of the same page, and two
\* texts new URL() rejects (no scheme; the empty string)
SeedBare   == <<"http:", "//", "a.com">>
SeedSlash  == <<"http:", "//", "a.com", "/">>
SeedNoScheme == <<"a.com">>
Seeds == {SeedBare, SeedSlash, SeedNoScheme, <<>>}

ScanLevels == {"quick", "standard", "detailed"}

\* crawlLimit values: negative, zero and every budget up to MaxBudget
CrawlLimits == (-1)..MaxBudget

\* custom rules as the caller's store holds them (shared schema, customRules)
BadPattern == "("
RulePassword == [id |-> 1, name |-> "Hardcoded password", description |-> <<"d1">>,
                 category |-> "Secrets", pattern |-> "password",
                 severity |-> "high", enabled |-> TRUE]
RuleBroken   == [id |-> 2, name |-> "Broken rule", description |-> <<"d2">>,
                 category |-> "Misc", pattern |-> BadPattern,
                 severity |-> "medium", enabled |-> TRUE]
RuleInfo     == [id |-> 3, name |-> "Token marker", description |-> <<"d3">>,
                 category |-> "Info", pattern |-> "token",
                 severity |-> "safe", enabled |-> TRUE]
RuleDisabled == [id |-> 4, name |-> "Disabled rule", description |-> <<"d4">>,
                 category |-> "Secrets", pattern |-> "password",
                 severity |-> "high", enabled |-> FALSE]
RuleLists == {<<>>, <<RulePassword, RuleBroken, RuleInfo, RuleDisabled>>}

\* what the built-in detector reports for a response (name, severity, category)
DetCsp  == [name |-> "Missing Content-Security-Policy", severity |-> "medium",
            category |-> "Security Headers"]
DetXss  == [name |-> "Reflected XSS", severity |-> "high", category |-> "XSS"]
DetBanner == [name |-> "Server banner", severity |-> "low",
              category |-> "Outdated Technology"]

\* response bodies of the site under scan.  links: the href values of the
\* a[href] elements in document order; text: the patterns the body matches;
\* detected / detectorFails: what the built-in detector makes of the response
HomePage  == [links |-> << <<"/", "p1">>, <<"p2">>, <<"/", "p1">> >>,
              text |-> {"password"},
              detected |-> <<DetCsp>>, detectorFails |-> FALSE]
BackPage  == [links |-> << <<"/">>, <<"http:", "//", "a.com", "/", "p1", "#", "f">>,
                           <<"#", "top">> >>,
              text |-> {"password", "token"},
              detected |-> <<>>, detectorFails |-> FALSE]
EvilPage  == [links |-> << <<"http:", "//", "a.com", ".evil.org", "/">>,
                           <<"http:", "//", "b.org", "/">>,
                           <<"https:", "//", "a.com", "/", "p1">> >>,
              text |-> {},
              detected |-> <<DetXss, DetBanner>>, detectorFails |-> FALSE]
JunkPage  == [links |-> << <<>>, <<"javascript:", "x">>, <<"mailto:", "x">>,
                           <<"http:", "//">>, <<"/", "p2">> >>,
              text |-> {"token"},
              detected |-> <<DetBanner>>, detectorFails |-> FALSE]
BrokenPage == [links |-> << <<"/", "p2">> >>,
               text |-> {"password"},
               detected |-> <<>>, detectorFails |-> TRUE]
Bodies == {HomePage, BackPage, EvilPage, JunkPage, BrokenPage}

\* error objects a rejected fetch carries: with a string message, or without
NoMessage == [hasMessage |-> FALSE, message |-> ""]
ErrTimeout == [hasMessage |-> TRUE, message |-> "timeout of 15000ms exceeded"]
ErrStatus == [hasMessage |-> TRUE, message |-> "Request failed with status code 500"]
ErrDetector == [hasMessage |-> TRUE, message |-> "detector failed"]
ErrRule == [hasMessage |-> TRUE, message |-> "Invalid regular expression"]

\* what the network can answer to one GET
FetchOutcomes ==
    { [kind |-> "response", status |-> 200, body |-> b] : b \in Bodies }
    \cup { [kind |-> "response", status |-> 404, body |-> JunkPage],
           [kind |-> "response", status |-> 500, body |-> HomePage] }
    \cup { [kind |-> "error", error |-> e] : e \in {ErrTimeout, NoMessage} }


\* ------------------------------------------------------ Scanner: helpers

\* validateStatus left at the default of axios: only 2xx resolves
validateStatusSuccessOnly(status) == status >= 200 /\ status < 300

\* axios option validateStatus: (status) => status < 500
validateStatus(status) == status < 500

\* axios.get(currentUrl, {...}): resolves with the response when the server
\* answered with an accepted status, rejects with an error object otherwise
AxiosGet(outcome) ==
    IF outcome.kind = "response"
    THEN IF validateStatus(outcome.status)
         THEN [threw |-> FALSE, error |-> NoMessage,
               response |-> [status |-> outcome.status, data |-> outcome.body]]
         ELSE [threw |-> TRUE, error |-> ErrStatus, response |-> [status |-> 0]]
    ELSE [threw |-> TRUE, error |-> outcome.error, response |-> [status |-> 0]]

\* vulnerabilityDetector.detectVulnerabilities(url, response, scanLevel): a
\* function of the response; its findings carry the page's URL
detectVulnerabilities(url, response, level) ==
    [threw |-> response.data.detectorFails,
     error |-> ErrDetector,
     value |-> [i \in 1..Len(response.data.detected) |->
                  [scanId |-> 0,
                   name |-> response.data.detected[i].name,
                   description |-> <<"built-in check">>,
                   url |-> url,
                   severity |-> response.data.detected[i].severity,
                   category |-> response.data.detected[i].category,
                   details |-> [check |-> response.data.detected[i].name],
                   status |-> "pending"]]]

\* new RegExp(pattern, 'i') throws on a pattern that does not compile
RegExpCompiles(pattern) == pattern # BadPattern

\* regex.test(content)
RegExpTest(pattern, content) == pattern \in content.text

\* the try block of checkCustomRules reporting every match as 'medium'
ApplyRuleFixedSeverity(rule, url, content) ==
    IF rule.enabled
    THEN IF ~RegExpCompiles(rule.pattern)
         THEN [threw |-> TRUE, found |-> <<>>]
         ELSE IF RegExpTest(rule.pattern, content)
              THEN [threw |-> FALSE,
                    found |-> << [scanId |-> 0,
                                  name |-> rule.name,
                                  description |-> rule.description,
                                  url |-> url,
                                  severity |-> "medium",
                                  category |-> rule.category,
                                  details |-> [rule |-> rule.id, matched |-> TRUE],
                                  status |-> "pending"] >>]
              ELSE [threw |-> FALSE, found |-> <<>>]
    ELSE [threw |-> FALSE, found |-> <<>>]

\* the body of the try block of checkCustomRules for one rule
ApplyRule(rule, url, content) ==
    IF rule.enabled
    THEN IF ~RegExpCompiles(rule.pattern)
         THEN [threw |-> TRUE, found |-> <<>>]
         ELSE IF RegExpTest(rule.pattern, content)
              THEN [threw |-> FALSE,
                    found |-> << [scanId |-> 0,
                                  name |-> rule.name,
                                  description |-> rule.description,
                                  url |-> url,
                                  severity |-> rule.severity,
                                  category |-> rule.category,
                                  details |-> [rule |-> rule.id, matched |-> TRUE],
                                  status |-> "pending"] >>]
              ELSE [threw |-> FALSE, found |-> <<>>]
    ELSE [threw |-> FALSE, found |-> <<>>]

\* a turn of the loop of checkCustomRules without its try/catch: the error of a
\* rule leaves the loop
RuleStepNoCatch(acc, rule, url, content) ==
    LET r == ApplyRule(rule, url, content)
    IN  IF r.threw
        THEN [threw |-> TRUE, found |-> acc.found]
        ELSE [threw |-> FALSE, found |-> acc.found \o r.found]

\* one turn of the for loop of checkCustomRules: try { ... } catch { log }.
\* acc.found is the local list so far; acc.threw says an error left the loop
RuleStep(acc, rule, url, content) ==
    LET r == ApplyRule(rule, url, content)
    IN  IF r.threw
        THEN [threw |-> FALSE, found |-> acc.found]
        ELSE [threw |-> FALSE, found |-> acc.found \o r.found]

RECURSIVE CheckRulesFrom(_, _, _, _, _)
CheckRulesFrom(rules, i, url, content, acc) ==
    IF i > Len(rules) \/ acc.threw
    THEN acc
    ELSE CheckRulesFrom(rules, i + 1, url, content,
                        RuleStep(acc, rules[i], url, content))

\* Scanner.checkCustomRules(url, content), over this.customRules
checkCustomRules(rules, url, content) ==
    CheckRulesFrom(rules, 1, url, content, [threw |-> FALSE, found |-> <<>>])

\* the links the extractor does not even try to resolve
SkippedLink(link) ==
    \/ link = <<>>
    \/ link[1] \in {"javascript:", "mailto:", "#"}

\* the test without the look at the queue
EnqueueableUnvisited(absoluteUrl, base, vis, q) ==
    /\ StartsWith(absoluteUrl, base)
    /\ absoluteUrl \notin Range(vis)

\* the test that lets a resolved link onto the frontier
Enqueueable(absoluteUrl, base, vis, q) ==
    /\ StartsWith(absoluteUrl, base)
    /\ absoluteUrl \notin Range(vis)
    /\ absoluteUrl \notin Range(q)

\* one turn of the for loop of extractLinks: the queue after the link
LinkStep(q, link, pageUrl, base, vis) ==
    IF SkippedLink(link)
    THEN q
    ELSE LET u == ResolveURL(link, pageUrl)
         IN  IF ~u.ok
             THEN q
             ELSE IF Enqueueable(Href(u), base, vis, q)
                  THEN Append(q, Href(u))
                  ELSE q

RECURSIVE ExtractFrom(_, _, _, _, _, _)
ExtractFrom(links, i, q, pageUrl, base, vis) ==
    IF i > Len(links)
    THEN q
    ELSE ExtractFrom(links, i + 1, LinkStep(q, links[i], pageUrl, base, vis),
                     pageUrl, base, vis)

\* Scanner.extractLinks(pageUrl, html): this.queue afterwards
extractLinks(q, pageUrl, html, base, vis) ==
    ExtractFrom(html.links, 1, q, pageUrl, base, vis)

CountSeverity(vs, sev) == Cardinality({ i \in 1..Len(vs) : vs[i].severity = sev })

Max(a, b) == IF a >= b THEN a ELSE b
Min(a, b) == IF a <= b THEN a ELSE b

\* calculateSummary without Math.max(0, ...)
calculateSummaryUnclamped(vs) ==
    LET high   == CountSeverity(vs, "high")
        medium == CountSeverity(vs, "medium")
        low    == CountSeverity(vs, "low")
    IN  [totalVulnerabilities |-> Len(vs),
         highSeverity   |-> high,
         mediumSeverity |-> medium,
         lowSeverity    |-> low,
         securityScore  |-> Min(100, 100 - (high * 10 + medium * 5 + low * 2))]

\* calculateSummary with the total taken as the sum of the three counts
calculateSummaryCountedOnly(vs) ==
    LET high   == CountSeverity(vs, "high")
        medium == CountSeverity(vs, "medium")
        low    == CountSeverity(vs, "low")
    IN  [totalVulnerabilities |-> high + medium + low,
         highSeverity   |-> high,
         mediumSeverity |-> medium,
         lowSeverity    |-> low,
         securityScore  |-> Min(100, Max(0, 100 - (high * 10 + medium * 5 + low * 2)))]

\* Scanner.calculateSummary(vulnerabilities)
calculateSummary(vs) ==
    LET high   == CountSeverity(vs, "high")
        medium == CountSeverity(vs, "medium")
        low    == CountSeverity(vs, "low")
    IN  [totalVulnerabilities |-> Len(vs),
         highSeverity   |-> high,
         mediumSeverity |-> medium,
         lowSeverity    |-> low,
         securityScore  |-> Min(100, Max(0, 100 - (high * 10 + medium * 5 + low * 2)))]

\* the message the catch block of run() reports
ErrorMessage(error) ==
    IF error.hasMessage THEN error.message ELSE "Unknown error occurred"

\* the finding the catch block of run() pushes
AccessError(url, error) ==
    [scanId |-> 0,
     name |-> "URL Access Error",
     description |-> <<"Could not access", url, ErrorMessage(error)>>,
     url |-> url,
     severity |-> "low",
     category |-> "Accessibility",
     details |-> [error |-> ErrorMessage(error)],
     status |-> "pending"]


\* -------------------------------------------------------- Scanner: state

VARIABLES
    options,          \* the ScanOptions the scan was asked with
    pc,               \* "new", "constructed", "loop", "fetching", "done", "threw"
    visited,          \* this.visited, a Set: its elements in insertion order
    queue,            \* this.queue
    maxPages,         \* this.maxPages
    baseUrl,          \* this.baseUrl
    customRules,      \* this.customRules
    scanLevel,        \* this.scanLevel
    vulnerabilities,  \* the local list of run()
    currentUrl,       \* the local currentUrl of the loop body
    result,           \* what run() returned
    thrown,           \* the message of the error the call ended with, or ""
    pushed,           \* history: every URL pushed onto this.queue, in order
    fetchLog,         \* history: every GET issued, with how it settled
    extractCalls,     \* history: number of calls of extractLinks
    depths,           \* history: for each URL of pushed, the number of links
                      \* followed from the seed to find it
    calc,             \* calculateSummary applied on its own to a list of findings
    site,             \* the answers of the site, by URL, where they are fixed up front
    other,            \* a second Scanner instance, while the first one has the floor
    server            \* the createScan request, its responses, and the stored rows

scanVars == <<options, pc, visited, queue, maxPages, baseUrl, customRules, scanLevel,
              vulnerabilities, currentUrl, result, thrown, pushed, fetchLog,
              extractCalls, depths>>

vars == <<options, pc, visited, queue, maxPages, baseUrl, customRules, scanLevel,
          vulnerabilities, currentUrl, result, thrown, pushed, fetchLog,
          extractCalls, depths, calc, site, other, server>>

NoResult == [returned |-> FALSE]

NoOutcome == [kind |-> "none"]

CalcIdle == [pc |-> "idle"]

NoSite == <<>>

NoScanner == [pc |-> "none"]

NoServer == [pc |-> "none"]

ScanOptions ==
    [url : Seeds, scanLevel : ScanLevels, crawlLimit : CrawlLimits,
     useAuthentication : BOOLEAN, includeCustomRules : BOOLEAN,
     customRules : RuleLists]

\* field initialisers of class Scanner, before the constructor body runs
FieldsInit ==
    /\ pc = "new"
    /\ visited = <<>>
    /\ queue = <<>>
    /\ maxPages = 0
    /\ baseUrl = <<>>
    /\ customRules = <<>>
    /\ scanLevel = ""
    /\ vulnerabilities = <<>>
    /\ currentUrl = <<>>
    /\ result = NoResult
    /\ thrown = ""
    /\ pushed = <<>>
    /\ fetchLog = <<>>
    /\ extractCalls = 0
    /\ depths = <<>>

Init ==
    /\ options \in ScanOptions
    /\ FieldsInit
    /\ calc = CalcIdle
    /\ site = NoSite
    /\ other = NoScanner
    /\ server = NoServer

\* ------------------------------------------------------ Scanner: actions

\* a constructor whose catch only logs, with the push after the try block
ConstructorUnchecked ==
    /\ pc = "new"
    /\ maxPages' = options.crawlLimit
    /\ scanLevel' = options.scanLevel
    /\ customRules' = options.customRules
    /\ baseUrl' = IF ParseURL(options.url).ok
                  THEN <<ParseURL(options.url).protocol, "//">> \o ParseURL(options.url).host
                  ELSE baseUrl
    /\ queue' = Append(queue, options.url)
    /\ pushed' = Append(pushed, options.url)
    /\ depths' = Append(depths, 0)
    /\ pc' = "constructed"
    /\ UNCHANGED <<options, visited, vulnerabilities, currentUrl, result, thrown,
                   fetchLog, extractCalls, calc, site, other, server>>

\* new Scanner(options): the seed is parsed; a seed new URL() rejects makes the
\* constructor throw 'Invalid URL format'
Constructor ==
    /\ pc = "new"
    /\ maxPages' = options.crawlLimit
    /\ scanLevel' = options.scanLevel
    /\ customRules' = options.customRules
    /\ LET parsedUrl == ParseURL(options.url)
       IN  IF parsedUrl.ok
           THEN /\ baseUrl' = <<parsedUrl.protocol, "//">> \o parsedUrl.host
                /\ queue' = Append(queue, options.url)
                /\ pushed' = Append(pushed, options.url)
                /\ depths' = Append(depths, 0)
                /\ pc' = "constructed"
                /\ UNCHANGED thrown
           ELSE /\ pc' = "threw"
                /\ thrown' = "Invalid URL format"
                /\ UNCHANGED <<baseUrl, queue, pushed, depths>>
    /\ UNCHANGED <<options, visited, vulnerabilities, currentUrl, result, fetchLog,
                   extractCalls, calc, site, other, server>>

\* the coercion written with < instead of <=
CoerceBudgetNegativeOnly(n) == IF n < 0 THEN 1 ELSE n

\* if (this.maxPages <= 0) this.maxPages = 1
CoerceBudget(n) == IF n <= 0 THEN 1 ELSE n

\* the first statements of run(), up to the loop
RunStart ==
    /\ pc = "constructed"
    /\ vulnerabilities' = <<>>
    /\ maxPages' = CoerceBudget(maxPages)
    /\ pc' = "loop"
    /\ UNCHANGED <<options, visited, queue, baseUrl, customRules, scanLevel, currentUrl,
                   result, thrown, pushed, fetchLog, extractCalls, depths, calc, site, other, server>>

\* the loop test counting the waiting URLs against the budget as well
LoopConditionCountsQueue(q, vis, budget) == Len(q) > 0 /\ Len(vis) + Len(q) <= budget

\* the loop test written with <= instead of <
LoopConditionInclusive(q, vis, budget) == Len(q) > 0 /\ Len(vis) <= budget

\* while (this.queue.length > 0 && this.visited.size < this.maxPages)
LoopCondition(q, vis, budget) == Len(q) > 0 /\ Len(vis) < budget

\* Set.prototype.add
SetAdd(vis, url) == IF url \in Range(vis) THEN vis ELSE Append(vis, url)

\* the loop body issuing the GET without marking the URL visited first
DequeueUnmarked ==
    /\ pc = "loop"
    /\ LoopCondition(queue, visited, maxPages)
    /\ currentUrl' = Head(queue)
    /\ queue' = Tail(queue)
    /\ IF Head(queue) \in Range(visited)
       THEN /\ pc' = "loop"
            /\ UNCHANGED <<visited, fetchLog>>
       ELSE /\ visited' = visited
            /\ fetchLog' = Append(fetchLog, [url |-> Head(queue), state |-> "pending",
                                             outcome |-> NoOutcome])
            /\ pc' = "fetching"
    /\ UNCHANGED <<options, maxPages, baseUrl, customRules, scanLevel, vulnerabilities,
                   result, thrown, pushed, extractCalls, depths, calc, site, other, server>>

\* the loop body reading the front of the queue without removing it
DequeuePeek ==
    /\ pc = "loop"
    /\ LoopCondition(queue, visited, maxPages)
    /\ currentUrl' = Head(queue)
    /\ queue' = queue
    /\ IF Head(queue) \in Range(visited)
       THEN /\ pc' = "loop"
            /\ UNCHANGED <<visited, fetchLog>>
       ELSE /\ visited' = SetAdd(visited, Head(queue))
            /\ fetchLog' = Append(fetchLog, [url |-> Head(queue), state |-> "pending",
                                             outcome |-> NoOutcome])
            /\ pc' = "fetching"
    /\ UNCHANGED <<options, maxPages, baseUrl, customRules, scanLevel, vulnerabilities,
                   result, thrown, pushed, extractCalls, depths, calc, site, other, server>>

\* the loop body taking the URL from the end of the queue (pop for shift)
DequeueLast ==
    /\ pc = "loop"
    /\ LoopCondition(queue, visited, maxPages)
    /\ currentUrl' = queue[Len(queue)]
    /\ queue' = SubSeq(queue, 1, Len(queue) - 1)
    /\ IF queue[Len(queue)] \in Range(visited)
       THEN /\ pc' = "loop"
            /\ UNCHANGED <<visited, fetchLog>>
       ELSE /\ visited' = SetAdd(visited, queue[Len(queue)])
            /\ fetchLog' = Append(fetchLog, [url |-> queue[Len(queue)],
                                             state |-> "pending",
                                             outcome |-> NoOutcome])
            /\ pc' = "fetching"
    /\ UNCHANGED <<options, maxPages, baseUrl, customRules, scanLevel, vulnerabilities,
                   result, thrown, pushed, extractCalls, depths, calc, site, other, server>>

\* the loop body up to the await: shift, the visited test, visited.add, and the
\* GET being issued
Dequeue ==
    /\ pc = "loop"
    /\ LoopCondition(queue, visited, maxPages)
    /\ currentUrl' = Head(queue)
    /\ queue' = Tail(queue)
    /\ IF Head(queue) \in Range(visited)
       THEN /\ pc' = "loop"
            /\ UNCHANGED <<visited, fetchLog>>
       ELSE /\ visited' = SetAdd(visited, Head(queue))
            /\ fetchLog' = Append(fetchLog, [url |-> Head(queue), state |-> "pending",
                                             outcome |-> NoOutcome])
            /\ pc' = "fetching"
    /\ UNCHANGED <<options, maxPages, baseUrl, customRules, scanLevel, vulnerabilities,
                   result, thrown, pushed, extractCalls, depths, calc, site, other, server>>

\* the recorded depth of a URL that was pushed
DepthOf(urls, ds, url) == ds[CHOOSE i \in 1..Len(urls) : urls[i] = url]

\* the history entry of the GET that has just settled
Settle(log, state, outcome) ==
    [log EXCEPT ![Len(log)] = [url |-> log[Len(log)].url, state |-> state,
                               outcome |-> outcome]]

\* a catch block that only logs the error
CatchBlockSilent(vs, url, error) == [threw |-> FALSE, vulnerabilities |-> vs]

\* a catch block that hands the error on to the caller of run()
CatchBlockRethrow(vs, url, error) == [threw |-> TRUE, vulnerabilities |-> vs]

\* catch (error) { vulnerabilities.push({... 'URL Access Error' ...}) }: the
\* list afterwards, and whether an error leaves the catch block
CatchBlock(vs, url, error) ==
    [threw |-> FALSE, vulnerabilities |-> Append(vs, AccessError(url, error))]

\* the guard of run() testing only that rules were supplied
CustomFindingsWheneverSupplied(opts, rules, url, content) ==
    IF Len(rules) > 0
    THEN checkCustomRules(rules, url, content)
    ELSE [threw |-> FALSE, found |-> <<>>]

\* custom rules evaluated only in a scan that asked for authentication
CustomFindingsWhenAuthenticated(opts, rules, url, content) ==
    IF opts.includeCustomRules /\ opts.useAuthentication /\ Len(rules) > 0
    THEN checkCustomRules(rules, url, content)
    ELSE [threw |-> FALSE, found |-> <<>>]

\* if (this.options.includeCustomRules && this.customRules.length > 0)
CustomFindings(opts, rules, url, content) ==
    IF opts.includeCustomRules /\ Len(rules) > 0
    THEN checkCustomRules(rules, url, content)
    ELSE [threw |-> FALSE, found |-> <<>>]

\* a push that leaves out a finding whose name is already in the list
PushAllUnique(vs, found) ==
    vs \o SelectSeq(found, LAMBDA f : \A k \in 1..Len(vs) : vs[k].name # f.name)

\* vulnerabilities.push(...found)
PushAll(vs, found) == vs \o found

\* link extraction not gated by the scan level
FollowsLinksAlways(level) == TRUE

\* if (this.scanLevel !== 'quick')
FollowsLinks(level) == level # "quick"

\* the GET resolved: detection, custom rules, link extraction.  An error raised
\* inside the try block lands in the catch block of run(), with the findings
\* pushed before it kept
FetchResolved(outcome) ==
    /\ pc = "fetching"
    /\ ~AxiosGet(outcome).threw
    /\ LET response == AxiosGet(outcome).response
           detected == detectVulnerabilities(currentUrl, response, scanLevel)
           afterDetect == IF detected.threw THEN vulnerabilities
                          ELSE vulnerabilities \o detected.value
           custom   == IF detected.threw THEN [threw |-> FALSE, found |-> <<>>]
                       ELSE CustomFindings(options, customRules, currentUrl, response.data)
           error    == IF detected.threw THEN detected.error ELSE ErrRule
           caught   == CatchBlock(afterDetect, currentUrl, error)
       IN  IF detected.threw \/ custom.threw
           THEN /\ vulnerabilities' = caught.vulnerabilities
                /\ pc' = IF caught.threw THEN "threw" ELSE "loop"
                /\ thrown' = IF caught.threw THEN ErrorMessage(error) ELSE thrown
                /\ UNCHANGED <<queue, pushed, extractCalls, depths>>
           ELSE /\ vulnerabilities' = PushAll(afterDetect, custom.found)
                /\ pc' = "loop"
                /\ UNCHANGED thrown
                /\ IF FollowsLinks(scanLevel)
                   THEN /\ queue' = extractLinks(queue, currentUrl, response.data,
                                                 baseUrl, visited)
                        /\ pushed' = pushed \o SubSeq(queue', Len(queue) + 1, Len(queue'))
                        /\ depths' = depths \o [i \in 1..(Len(queue') - Len(queue)) |->
                                                  DepthOf(pushed, depths, currentUrl) + 1]
                        /\ extractCalls' = extractCalls + 1
                   ELSE UNCHANGED <<queue, pushed, extractCalls, depths>>
    /\ fetchLog' = Settle(fetchLog, "resolved", outcome)
    /\ UNCHANGED <<options, visited, maxPages, baseUrl, customRules, scanLevel,
                   currentUrl, result, calc, site, other, server>>

\* the GET rejected (network error, timeout, status >= 500)
FetchRejected(outcome) ==
    /\ pc = "fetching"
    /\ AxiosGet(outcome).threw
    /\ LET caught == CatchBlock(vulnerabilities, currentUrl, AxiosGet(outcome).error)
       IN  /\ vulnerabilities' = caught.vulnerabilities
           /\ pc' = IF caught.threw THEN "threw" ELSE "loop"
           /\ thrown' = IF caught.threw THEN ErrorMessage(AxiosGet(outcome).error)
                        ELSE thrown
    /\ fetchLog' = Settle(fetchLog, "rejected", outcome)
    /\ UNCHANGED <<options, visited, queue, maxPages, baseUrl, customRules, scanLevel,
                   currentUrl, result, pushed, extractCalls, depths, calc, site, other, server>>

\* the loop has ended: summary and return
Return ==
    /\ pc = "loop"
    /\ ~LoopCondition(queue, visited, maxPages)
    /\ result' = [returned |-> TRUE,
                  scannedUrls |-> visited,
                  vulnerabilities |-> vulnerabilities,
                  summary |-> calculateSummary(vulnerabilities)]
    /\ pc' = "done"
    /\ UNCHANGED <<options, visited, queue, maxPages, baseUrl, customRules, scanLevel,
                   vulnerabilities, currentUrl, thrown, pushed, fetchLog, extractCalls,
                   depths, calc, site, other, server>>

Next ==
    \/ Constructor
    \/ RunStart
    \/ Dequeue
    \/ \E outcome \in FetchOutcomes : FetchResolved(outcome)
    \/ \E outcome \in FetchOutcomes : FetchRejected(outcome)
    \/ Return

Spec == Init /\ [][Next]_vars

\* the scan under its scheduling: the synchronous stretches of run() run to
\* their await, and every GET that was issued settles (it resolves, or it
\* rejects, at the latest by its timeout)
FairSpec == Spec /\ WF_vars(Next)


\* --------------------------------- runScan as a function of its arguments

\* what a site answers to the GET of a URL: answers maps URL texts to fetch
\* outcomes; a URL it does not map is not answered (connection error)
Respond(answers, url) ==
    IF url \in DOMAIN answers THEN answers[url]
    ELSE [kind |-> "error", error |-> NoMessage]

\* the body of the while loop of run() for the URL at the front of the queue:
\* the locals and fields after the turn
LoopBody(opts, answers, base, st) ==
    LET url  == Head(st.queue)
        rest == Tail(st.queue)
        vis  == SetAdd(st.visited, url)
        got  == AxiosGet(Respond(answers, url))
        detected == detectVulnerabilities(url, got.response, opts.scanLevel)
        afterDetect == st.vulnerabilities \o detected.value
        custom == CustomFindings(opts, opts.customRules, url, got.response.data)
        Caught(vs, error) ==
            [st EXCEPT !.queue = rest, !.visited = vis,
                       !.fetched = Append(st.fetched, url),
                       !.vulnerabilities = CatchBlock(vs, url, error).vulnerabilities,
                       !.threw = CatchBlock(vs, url, error).threw]
    IN  IF url \in Range(st.visited)
        THEN [st EXCEPT !.queue = rest]
        ELSE IF got.threw
        THEN Caught(st.vulnerabilities, got.error)
        ELSE IF detected.threw
        THEN Caught(st.vulnerabilities, detected.error)
        ELSE IF custom.threw
        THEN Caught(afterDetect, ErrRule)
        ELSE [st EXCEPT !.visited = vis,
                        !.fetched = Append(st.fetched, url),
                        !.vulnerabilities = PushAll(afterDetect, custom.found),
                        !.queue = IF FollowsLinks(opts.scanLevel)
                                  THEN extractLinks(rest, url, got.response.data,
                                                    base, vis)
                                  ELSE rest]

\* the while loop of run()
RECURSIVE RunLoop(_, _, _, _)
RunLoop(opts, answers, base, st) ==
    IF st.threw \/ ~LoopCondition(st.queue, st.visited, st.maxPages)
    THEN st
    ELSE RunLoop(opts, answers, base, LoopBody(opts, answers, base, st))

\* runScan(options) = new Scanner(options).run(), against a site with the
\* given answers: the GETs issued in order, the frontier left behind, and what
\* the call returns or throws
runScan(opts, answers) ==
    LET parsedUrl == ParseURL(opts.url)
        end == RunLoop(opts, answers,
                       <<parsedUrl.protocol, "//">> \o parsedUrl.host,
                       [visited |-> <<>>, queue |-> <<opts.url>>,
                        vulnerabilities |-> <<>>, fetched |-> <<>>,
                        maxPages |-> CoerceBudget(opts.crawlLimit),
                        threw |-> FALSE])
    IN  IF ~parsedUrl.ok
        THEN [threw |-> TRUE, fetched |-> <<>>, frontier |-> <<>>,
              scannedUrls |-> <<>>, vulnerabilities |-> <<>>,
              summary |-> calculateSummary(<<>>)]
        ELSE [threw |-> end.threw,
              fetched |-> end.fetched,
              frontier |-> end.queue,
              scannedUrls |-> end.visited,
              vulnerabilities |-> end.vulnerabilities,
              summary |-> calculateSummary(end.vulnerabilities)]


\* ---------------------------------------------- two scans at the same time

\* largest crawlLimit of the two concurrent scans
PairBudget == 2

UrlP1 == <<"http:", "//", "a.com", "/", "p1">>
UrlP2 == <<"http:", "//", "a.com", "/", "p2">>

\* the sites the two scans run against: an answer for each of three pages
PairSites ==
    [{SeedSlash, UrlP1, UrlP2} ->
        { [kind |-> "response", status |-> 200, body |-> HomePage],
          [kind |-> "response", status |-> 200, body |-> BackPage],
          [kind |-> "error", error |-> ErrTimeout] }]

PairOptions ==
    [url : {SeedSlash}, scanLevel : {"quick", "standard"}, crawlLimit : 1..PairBudget,
     useAuthentication : {FALSE}, includeCustomRules : {TRUE},
     customRules : {<<RulePassword, RuleBroken, RuleInfo, RuleDisabled>>}]

\* the fields of the Scanner instance that has the floor, and the locals of
\* its run()
ThisScanner ==
    [options |-> options, pc |-> pc, visited |-> visited, queue |-> queue,
     maxPages |-> maxPages, baseUrl |-> baseUrl, customRules |-> customRules,
     scanLevel |-> scanLevel, vulnerabilities |-> vulnerabilities,
     currentUrl |-> currentUrl, result |-> result, thrown |-> thrown,
     pushed |-> pushed, fetchLog |-> fetchLog, extractCalls |-> extractCalls,
     depths |-> depths]

\* a Scanner object before its constructor body has run
NewScanner(opts) ==
    [options |-> opts, pc |-> "new", visited |-> <<>>, queue |-> <<>>,
     maxPages |-> 0, baseUrl |-> <<>>, customRules |-> <<>>, scanLevel |-> "",
     vulnerabilities |-> <<>>, currentUrl |-> <<>>, result |-> NoResult,
     thrown |-> "", pushed |-> <<>>, fetchLog |-> <<>>, extractCalls |-> 0,
     depths |-> <<>>]

\* two calls of runScan against one site
PairInit ==
    /\ options \in PairOptions
    /\ FieldsInit
    /\ calc = CalcIdle
    /\ site \in PairSites
    /\ \E opts \in PairOptions : other = NewScanner(opts)
    /\ server = NoServer

\* the two instances with one queue between them (a queue that is not a
\* field of the instance)
SwitchSharedQueue ==
    /\ pc \in {"new", "fetching", "done", "threw"}
    /\ other' = ThisScanner
    /\ options' = other.options
    /\ pc' = other.pc
    /\ visited' = other.visited
    /\ queue' = queue
    /\ maxPages' = other.maxPages
    /\ baseUrl' = other.baseUrl
    /\ customRules' = other.customRules
    /\ scanLevel' = other.scanLevel
    /\ vulnerabilities' = other.vulnerabilities
    /\ currentUrl' = other.currentUrl
    /\ result' = other.result
    /\ thrown' = other.thrown
    /\ pushed' = other.pushed
    /\ fetchLog' = other.fetchLog
    /\ extractCalls' = other.extractCalls
    /\ depths' = other.depths
    /\ UNCHANGED <<calc, site, server>>

\* the event loop hands the floor to the other scan: the running scan is at
\* its await (or has not started, or has ended); each instance keeps its own
\* fields and locals
Switch ==
    /\ pc \in {"new", "fetching", "done", "threw"}
    /\ other' = ThisScanner
    /\ options' = other.options
    /\ pc' = other.pc
    /\ visited' = other.visited
    /\ queue' = other.queue
    /\ maxPages' = other.maxPages
    /\ baseUrl' = other.baseUrl
    /\ customRules' = other.customRules
    /\ scanLevel' = other.scanLevel
    /\ vulnerabilities' = other.vulnerabilities
    /\ currentUrl' = other.currentUrl
    /\ result' = other.result
    /\ thrown' = other.thrown
    /\ pushed' = other.pushed
    /\ fetchLog' = other.fetchLog
    /\ extractCalls' = other.extractCalls
    /\ depths' = other.depths
    /\ UNCHANGED <<calc, site, server>>

PairNext ==
    \/ Constructor
    \/ RunStart
    \/ Dequeue
    \/ FetchResolved(Respond(site, currentUrl))
    \/ FetchRejected(Respond(site, currentUrl))
    \/ Return
    \/ Switch

PairSpec == PairInit /\ [][PairNext]_vars


\* --------------------------------- scan-controller: createScan and doScan

\* Math.min(scanDataObj.crawlLimit, 5)
DemoPageCap == 5

\* largest crawlLimit a request asks for
MaxRequestLimit == 6

\* the crawl limit the scan form sends for its choice 'unlimited'
UnlimitedCrawl == 9999

\* a page with links to six further pages of its site
HubPage == [links |-> << <<"/", "p1">>, <<"/", "p2">>, <<"/", "p3">>,
                         <<"/", "p4">>, <<"/", "p5">>, <<"/", "p6">> >>,
            text |-> {},
            detected |-> <<>>, detectorFails |-> FALSE]

\* a site whose home page is the hub; its other pages do not answer
HubSite == [u \in {SeedSlash} |-> [kind |-> "response", status |-> 200, body |-> HubPage]]

\* the sites a scan started through the controller runs against
ControllerSites == PairSites \cup {HubSite}

\* the requests POSTed to createScan: with or without a session, and a body
ScanRequests ==
    [authenticated : BOOLEAN,
     url : {SeedSlash, SeedNoScheme},
     scanLevel : {"quick", "standard", "thorough"},
     crawlLimit : 0..MaxRequestLimit \cup {UnlimitedCrawl},
     useAuthentication : {FALSE},
     includeCustomRules : BOOLEAN]

\* scanRequestSchema.safeParse(req.body).success
ValidScanRequest(body) ==
    /\ ParseURL(body.url).ok
    /\ body.scanLevel \in ScanLevels
    /\ body.crawlLimit >= 1

NoStoredResult == [kind |-> "null"]

\* no row in the scans table
NoRow ==
    [exists |-> FALSE, id |-> 0, status |-> "none", crawlLimit |-> 0,
     result |-> NoStoredResult]

\* the options of a Scanner that has not been asked for yet
IdleOptions ==
    [url |-> <<>>, scanLevel |-> "", crawlLimit |-> 0, useAuthentication |-> FALSE,
     includeCustomRules |-> FALSE, customRules |-> <<>>]

\* no deleteScan request
NoDelete == [pc |-> "none", user |-> 0, response |-> 0, deleted |-> FALSE]

\* vulnerabilities.scan_id references scans.id: the database refuses a
\* vulnerability row for a scan row that is not there; MemStorage keeps its
\* maps without such a check
ForeignKeyHolds(storage, scanRow) == storage = "memory" \/ scanRow.exists

\* a request has arrived; the store holds the user's custom rules and no scan
ControllerInit ==
    /\ options = IdleOptions
    /\ FieldsInit
    /\ calc = CalcIdle
    /\ other = NoScanner
    /\ site \in ControllerSites
    /\ \E req \in ScanRequests, rules \in RuleLists :
          server = [pc |-> "request",
                    request |-> req,
                    userRules |-> rules,
                    scan |-> NoRow,
                    scanObj |-> NoRow,
                    vulnerabilityRows |-> <<>>,
                    securityEvents |-> <<>>,
                    responses |-> <<>>,
                    statusLog |-> <<>>,
                    customRules |-> <<>>,
                    scanResult |-> NoResult,
                    stored |-> 0,
                    error |-> "",
                    storage |-> "database",
                    del |-> NoDelete]

\* storage.updateScan(id, updates): the row afterwards (no row, no change)
UpdateScan(row, status, res) ==
    IF row.exists THEN [row EXCEPT !.status = status, !.result = res] ELSE row

\* history of the status column: one entry per write that reached the row
LogStatus(log, row, status) == IF row.exists THEN Append(log, status) ELSE log

\* the handler up to its first await: session check, validation, and
\* storage.createScan (which inserts the row with status 'pending', or throws
\* into the outer catch)
CreateScanRecord(ok) ==
    /\ server.pc = "request"
    /\ IF ~server.request.authenticated
       THEN server' = [server EXCEPT
                !.responses = Append(@, [status |-> 401, scanStatus |-> "none"]),
                !.pc = "closed"]
       ELSE IF ~ValidScanRequest(server.request)
       THEN server' = [server EXCEPT
                !.responses = Append(@, [status |-> 400, scanStatus |-> "none"]),
                !.pc = "closed"]
       ELSE IF ~ok
       THEN server' = [server EXCEPT
                !.responses = Append(@, [status |-> 500, scanStatus |-> "none"]),
                !.pc = "closed"]
       ELSE LET row == [exists |-> TRUE, id |-> 1, status |-> "pending",
                        crawlLimit |-> server.request.crawlLimit,
                        result |-> NoStoredResult]
            IN  server' = [server EXCEPT
                    !.scan = row,
                    !.scanObj = row,
                    !.statusLog = Append(@, "pending"),
                    !.pc = "created"]
    /\ UNCHANGED <<scanVars, calc, site, other>>

\* res.status(201).json(scan), and doScan started: it runs to its first
\* await, storage.updateScan(... 'running' ...)
SendCreated ==
    /\ server.pc = "created"
    /\ server' = [server EXCEPT
            !.responses = Append(@, [status |-> 201,
                                     scanStatus |-> server.scanObj.status]),
            !.pc = "markRunning"]
    /\ UNCHANGED <<scanVars, calc, site, other>>

\* await storage.updateScan(id, {status: 'running', startedAt})
MarkRunning(ok) ==
    /\ server.pc = "markRunning"
    /\ IF ok
       THEN server' = [server EXCEPT
                !.scan = UpdateScan(@, "running", @.result),
                !.statusLog = LogStatus(@, server.scan, "running"),
                !.pc = IF server.request.includeCustomRules
                       THEN "getRules" ELSE "callRunScan"]
       ELSE server' = [server EXCEPT !.pc = "catch", !.error = "storage error"]
    /\ UNCHANGED <<scanVars, calc, site, other>>

\* customRules = await storage.getCustomRulesByUserId(userObj.id)
GetCustomRules(ok) ==
    /\ server.pc = "getRules"
    /\ IF ok
       THEN server' = [server EXCEPT !.customRules = server.userRules,
                                     !.pc = "callRunScan"]
       ELSE server' = [server EXCEPT !.pc = "catch", !.error = "storage error"]
    /\ UNCHANGED <<scanVars, calc, site, other>>

\* the call of runScan with the requested crawl limit, not capped
CallRunScanUncapped ==
    /\ server.pc = "callRunScan"
    /\ options' = [url |-> server.request.url,
                   scanLevel |-> server.request.scanLevel,
                   crawlLimit |-> server.request.crawlLimit,
                   useAuthentication |-> server.request.useAuthentication,
                   includeCustomRules |-> server.request.includeCustomRules,
                   customRules |-> server.customRules]
    /\ server' = [server EXCEPT !.pc = "runScan"]
    /\ UNCHANGED <<pc, visited, queue, maxPages, baseUrl, customRules, scanLevel,
                   vulnerabilities, currentUrl, result, thrown, pushed, fetchLog,
                   extractCalls, depths, calc, site, other>>

\* runScan({...}) is called with the capped crawlLimit
CallRunScan ==
    /\ server.pc = "callRunScan"
    /\ options' = [url |-> server.request.url,
                   scanLevel |-> server.request.scanLevel,
                   crawlLimit |-> Min(server.request.crawlLimit, DemoPageCap),
                   useAuthentication |-> server.request.useAuthentication,
                   includeCustomRules |-> server.request.includeCustomRules,
                   customRules |-> server.customRules]
    /\ server' = [server EXCEPT !.pc = "runScan"]
    /\ UNCHANGED <<pc, visited, queue, maxPages, baseUrl, customRules, scanLevel,
                   vulnerabilities, currentUrl, result, thrown, pushed, fetchLog,
                   extractCalls, depths, calc, site, other>>

\* await runScan(...) settles: its result, or its error into the catch block
RunScanSettled ==
    /\ server.pc = "runScan"
    /\ pc \in {"done", "threw"}
    /\ IF pc = "done"
       THEN server' = [server EXCEPT
                !.scanResult = result,
                !.pc = IF Len(result.vulnerabilities) = 0
                       THEN "markCompleted" ELSE "storeVulnerability"]
       ELSE server' = [server EXCEPT !.pc = "catch", !.error = thrown]
    /\ UNCHANGED <<scanVars, calc, site, other>>

\* a turn of the loop storing the finding as the engine returned it, scanId 0
StoreVulnerabilityPlaceholderId(ok) ==
    /\ server.pc = "storeVulnerability"
    /\ IF ok
       THEN server' = [server EXCEPT
                !.vulnerabilityRows =
                    Append(@, server.scanResult.vulnerabilities[server.stored + 1]),
                !.stored = @ + 1,
                !.pc = IF server.stored + 1 = Len(server.scanResult.vulnerabilities)
                       THEN "markCompleted" ELSE "storeVulnerability"]
       ELSE server' = [server EXCEPT !.pc = "catch", !.error = "storage error"]
    /\ UNCHANGED <<scanVars, calc, site, other>>

\* one turn of: for (...) await storage.createVulnerability({...v, scanId});
\* the insert is refused when it would break the foreign key
StoreVulnerability(ok) ==
    /\ server.pc = "storeVulnerability"
    /\ IF ok /\ ForeignKeyHolds(server.storage, server.scan)
       THEN server' = [server EXCEPT
                !.vulnerabilityRows =
                    Append(@, [server.scanResult.vulnerabilities[server.stored + 1]
                                 EXCEPT !.scanId = server.scanObj.id]),
                !.stored = @ + 1,
                !.pc = IF server.stored + 1 = Len(server.scanResult.vulnerabilities)
                       THEN "markCompleted" ELSE "storeVulnerability"]
       ELSE server' = [server EXCEPT !.pc = "catch", !.error = "storage error"]
    /\ UNCHANGED <<scanVars, calc, site, other>>

\* await storage.updateScan(id, {status: 'completed', completedAt, result})
MarkCompleted(ok) ==
    /\ server.pc = "markCompleted"
    /\ IF ok
       THEN server' = [server EXCEPT
                !.scan = UpdateScan(@, "completed",
                            [kind |-> "summary",
                             summary |-> server.scanResult.summary,
                             scannedUrls |-> server.scanResult.scannedUrls,
                             scanLevel |-> server.request.scanLevel,
                             totalPages |-> Len(server.scanResult.scannedUrls),
                             vulnerabilitiesCount |->
                                 Len(server.scanResult.vulnerabilities)]),
                !.statusLog = LogStatus(@, server.scan, "completed"),
                !.pc = "logCompleted"]
       ELSE server' = [server EXCEPT !.pc = "catch", !.error = "storage error"]
    /\ UNCHANGED <<scanVars, calc, site, other>>

\* await storage.createSecurityEvent({type: 'scan_completed', ...}), the last
\* statement of the try block
LogCompleted(ok) ==
    /\ server.pc = "logCompleted"
    /\ IF ok
       THEN server' = [server EXCEPT
                !.securityEvents = Append(@, "scan_completed"),
                !.pc = "finished"]
       ELSE server' = [server EXCEPT !.pc = "catch", !.error = "storage error"]
    /\ UNCHANGED <<scanVars, calc, site, other>>

\* the catch block of a doScan that the handler awaits: an error it raises
\* reaches the outer catch of createScan, which answers 500
CatchMarkFailedAwaited(ok) ==
    /\ server.pc = "catch"
    /\ IF ok
       THEN server' = [server EXCEPT
                !.scan = UpdateScan(@, "failed",
                            [kind |-> "error", error |-> server.error,
                             scanLevel |-> server.request.scanLevel]),
                !.statusLog = LogStatus(@, server.scan, "failed"),
                !.pc = "logFailed"]
       ELSE server' = [server EXCEPT
                !.responses = Append(@, [status |-> 500, scanStatus |-> "none"]),
                !.pc = "rejected"]
    /\ UNCHANGED <<scanVars, calc, site, other>>

\* the catch block of doScan: await storage.updateScan(id, {status: 'failed',
\* ...}); an error raised here rejects the promise of doScan, which nothing
\* awaits
CatchMarkFailed(ok) ==
    /\ server.pc = "catch"
    /\ IF ok
       THEN server' = [server EXCEPT
                !.scan = UpdateScan(@, "failed",
                            [kind |-> "error", error |-> server.error,
                             scanLevel |-> server.request.scanLevel]),
                !.statusLog = LogStatus(@, server.scan, "failed"),
                !.pc = "logFailed"]
       ELSE server' = [server EXCEPT !.pc = "rejected"]
    /\ UNCHANGED <<scanVars, calc, site, other>>

\* await storage.createSecurityEvent({type: 'scan_failed', ...})
LogFailed(ok) ==
    /\ server.pc = "logFailed"
    /\ IF ok
       THEN server' = [server EXCEPT
                !.securityEvents = Append(@, "scan_failed"),
                !.pc = "finished"]
       ELSE server' = [server EXCEPT !.pc = "rejected"]
    /\ UNCHANGED <<scanVars, calc, site, other>>

\* the steps of the Scanner that doScan awaits
ScanStep ==
    /\ server.pc = "runScan"
    /\ \/ Constructor
       \/ RunStart
       \/ Dequeue
       \/ FetchResolved(Respond(site, currentUrl))
       \/ FetchRejected(Respond(site, currentUrl))
       \/ Return

ControllerNext ==
    \/ \E ok \in BOOLEAN : CreateScanRecord(ok)
    \/ SendCreated
    \/ \E ok \in BOOLEAN : MarkRunning(ok)
    \/ \E ok \in BOOLEAN : GetCustomRules(ok)
    \/ CallRunScan
    \/ ScanStep
    \/ RunScanSettled
    \/ \E ok \in BOOLEAN : StoreVulnerability(ok)
    \/ \E ok \in BOOLEAN : MarkCompleted(ok)
    \/ \E ok \in BOOLEAN : LogCompleted(ok)
    \/ \E ok \in BOOLEAN : CatchMarkFailed(ok)
    \/ \E ok \in BOOLEAN : LogFailed(ok)

ControllerSpec == ControllerInit /\ [][ControllerNext]_vars


\* ------------------------------------------ task-controller: updateTask

\* requests to updateTask in one behaviour, and how many may be in flight
MaxTaskRequests == 3
MaxConcurrent == 2

\* the status column of a task, and of a vulnerability
TaskStatuses == {"pending", "in_progress", "completed", "deferred"}
VulnerabilityStatuses == {"pending", "in_progress", "fixed", "false_positive"}

\* the owner of the task, and another user with a session
TaskOwner == 1
OtherUser == 2

\* the ids a task's vulnerabilityId holds: null (0), or the vulnerability
NoVulnerability == 0
LinkedVulnerability == 7

\* PUT bodies that matter to the status: a new status, a body without one
\* ("absent"), and a value the enum rejects
TaskUpdates == TaskStatuses \cup {"absent", "done"}

\* updateTaskSchema.safeParse(req.body).success
ValidTaskUpdate(status) == status \in TaskStatuses \cup {"absent"}

\* a handler that is not running
IdleHandler ==
    [pc |-> "idle", user |-> 0, status |-> "absent", response |-> 0,
     task |-> [status |-> "", vulnerabilityId |-> NoVulnerability, userId |-> 0]]

\* a task of the owner, linked to a vulnerability or not, in some status; no
\* request yet.  History: transitions counts the writes that took the row
\* from not completed to completed, rejected says that a storage call has
\* failed, overlapped that two requests were in flight at the same time
TaskInit ==
    /\ options = IdleOptions
    /\ FieldsInit
    /\ calc = CalcIdle
    /\ site = NoSite
    /\ other = NoScanner
    /\ \E st \in TaskStatuses, vid \in {NoVulnerability, LinkedVulnerability},
          vs \in VulnerabilityStatuses \ {"fixed"} :
          server = [pc |-> "tasks",
                    task |-> [status |-> st, vulnerabilityId |-> vid,
                              userId |-> TaskOwner],
                    vulnerability |-> [status |-> vs],
                    vulnerabilityBefore |-> vs,
                    securityEvents |-> <<>>,
                    handlers |-> [h \in 1..MaxConcurrent |-> IdleHandler],
                    requests |-> 0,
                    transitions |-> 0,
                    rejected |-> FALSE,
                    overlapped |-> FALSE]

\* the end of a handler: the response is sent (500 from the catch block,
\* after a storage call has thrown)
TaskRespond(srv, h, code) ==
    [srv EXCEPT !.handlers[h] = [IdleHandler EXCEPT !.pc = "closed",
                                                    !.response = code],
                !.rejected = @ \/ code = 500]

\* updateTask up to its first await: session check, id and body validation,
\* then storage.getTask is called
TaskUpdateRequested(h, authenticated, user, status) ==
    /\ server.pc = "tasks"
    /\ server.handlers[h].pc \in {"idle", "closed"}
    /\ server.requests < MaxTaskRequests
    /\ LET started == [server EXCEPT !.requests = @ + 1,
                                     !.handlers[h] = [IdleHandler EXCEPT
                                                        !.user = user,
                                                        !.status = status]]
       IN  IF ~authenticated
           THEN server' = TaskRespond(started, h, 401)
           ELSE IF ~ValidTaskUpdate(status)
           THEN server' = TaskRespond(started, h, 400)
           ELSE server' = [started EXCEPT
                             !.handlers[h].pc = "getTask",
                             !.overlapped =
                                 @ \/ \E g \in 1..MaxConcurrent :
                                         g # h /\ server.handlers[g].pc
                                                    \notin {"idle", "closed"}]
    /\ UNCHANGED <<scanVars, calc, site, other>>

\* await storage.getTask(taskId) settles: 403 for a task of another user,
\* else storage.updateTask is called with the body (the task is never
\* deleted here, so getTask finds it and the 404 of line 167 is not taken)
TaskGetTask(h, ok) ==
    /\ server.pc = "tasks"
    /\ server.handlers[h].pc = "getTask"
    /\ IF ~ok
       THEN server' = TaskRespond(server, h, 500)
       ELSE IF server.task.userId # server.handlers[h].user
       THEN server' = TaskRespond(server, h, 403)
       ELSE server' = [server EXCEPT !.handlers[h].task = server.task,
                                     !.handlers[h].pc = "updateTask"]
    /\ UNCHANGED <<scanVars, calc, site, other>>

\* the test of line 189, on the body and on the task as getTask returned it
StatusChangedToCompleted(updateStatus, task) ==
    updateStatus = "completed" /\ task.status # "completed"

\* await storage.updateTask(taskId, {...updateData, dueDate}) settles: the
\* row has the new status; then the test of line 189
TaskUpdateRow(h, ok) ==
    /\ server.pc = "tasks"
    /\ server.handlers[h].pc = "updateTask"
    /\ IF ~ok
       THEN server' = TaskRespond(server, h, 500)
       ELSE LET me      == server.handlers[h]
                written == IF me.status = "absent" THEN server.task.status
                           ELSE me.status
                entered == server.task.status # "completed" /\ written = "completed"
                after   == [server EXCEPT
                              !.task.status = written,
                              !.transitions = IF entered THEN @ + 1 ELSE @]
            IN  IF StatusChangedToCompleted(me.status, me.task)
                THEN server' = [after EXCEPT !.handlers[h].pc = "createSecurityEvent"]
                ELSE server' = TaskRespond(after, h, 200)
    /\ UNCHANGED <<scanVars, calc, site, other>>

\* await storage.createSecurityEvent({type: 'task_completed', ...}) settles
TaskLogCompleted(h, ok) ==
    /\ server.pc = "tasks"
    /\ server.handlers[h].pc = "createSecurityEvent"
    /\ IF ~ok
       THEN server' = TaskRespond(server, h, 500)
       ELSE LET after == [server EXCEPT
                            !.securityEvents = Append(@, "task_completed")]
            IN  IF server.handlers[h].task.vulnerabilityId # NoVulnerability
                THEN server' = [after EXCEPT !.handlers[h].pc = "updateVulnerability"]
                ELSE server' = TaskRespond(after, h, 200)
    /\ UNCHANGED <<scanVars, calc, site, other>>

\* await storage.updateVulnerability(task.vulnerabilityId, {status: 'fixed'})
\* settles, and the handler answers 200
TaskMarkFixed(h, ok) ==
    /\ server.pc = "tasks"
    /\ server.handlers[h].pc = "updateVulnerability"
    /\ IF ~ok
       THEN server' = TaskRespond(server, h, 500)
       ELSE server' = TaskRespond([server EXCEPT !.vulnerability.status = "fixed"],
                                  h, 200)
    /\ UNCHANGED <<scanVars, calc, site, other>>

TaskNext ==
    \/ \E h \in 1..MaxConcurrent, a \in BOOLEAN, u \in {TaskOwner, OtherUser},
          s \in TaskUpdates : TaskUpdateRequested(h, a, u, s)
    \/ \E h \in 1..MaxConcurrent, ok \in BOOLEAN : TaskGetTask(h, ok)
    \/ \E h \in 1..MaxConcurrent, ok \in BOOLEAN : TaskUpdateRow(h, ok)
    \/ \E h \in 1..MaxConcurrent, ok \in BOOLEAN : TaskLogCompleted(h, ok)
    \/ \E h \in 1..MaxConcurrent, ok \in BOOLEAN : TaskMarkFixed(h, ok)

TaskSpec == TaskInit /\ [][TaskNext]_vars


\* ---------------------- scan-controller: deleteScan while doScan is running

\* the user who started the scan
ScanOwner == 1

\* the implementations of IStorage: DatabaseStorage, which the module
\* exports as storage, and MemStorage
Storages == {"database", "memory"}

\* the outcomes of a storage call: a DatabaseStorage call can reject, a
\* MemStorage call works on Maps and always resolves
StorageAnswers == IF server.storage = "database" THEN BOOLEAN ELSE {TRUE}

\* the createScan requests deleteScan is run against: accepted ones, for a
\* scan that follows links
DeleteScanRequests ==
    { r \in ScanRequests :
        /\ r.authenticated
        /\ ValidScanRequest(r)
        /\ r.scanLevel = "standard"
        /\ r.crawlLimit = PairBudget
        /\ r.includeCustomRules }

\* a createScan request has arrived; a deleteScan request for the scan it
\* creates can arrive at any time
DeleteInit ==
    /\ options = IdleOptions
    /\ FieldsInit
    /\ calc = CalcIdle
    /\ other = NoScanner
    /\ site \in PairSites
    /\ \E req \in DeleteScanRequests, st \in Storages :
          server = [pc |-> "request",
                    request |-> req,
                    userRules |-> <<RulePassword>>,
                    scan |-> NoRow,
                    scanObj |-> NoRow,
                    vulnerabilityRows |-> <<>>,
                    securityEvents |-> <<>>,
                    responses |-> <<>>,
                    statusLog |-> <<>>,
                    customRules |-> <<>>,
                    scanResult |-> NoResult,
                    stored |-> 0,
                    error |-> "",
                    storage |-> st,
                    del |-> [NoDelete EXCEPT !.pc = "idle"]]

\* the end of the deleteScan handler: the response is sent
DeleteRespond(srv, code) == [srv EXCEPT !.del.pc = "closed", !.del.response = code]

\* MemStorage.deleteScan: the scan leaves the map and the vulnerabilities
\* listed for it are deleted
MemDeleteScan(srv) ==
    [srv EXCEPT !.scan = NoRow, !.vulnerabilityRows = <<>>, !.del.deleted = TRUE]

\* deleteScan up to its first await: session check, id check, then
\* storage.getScan is called
DeleteRequested(authenticated, idOk, user) ==
    /\ server.del.pc = "idle"
    /\ IF ~authenticated
       THEN server' = DeleteRespond([server EXCEPT !.del.user = user], 401)
       ELSE IF ~idOk
       THEN server' = DeleteRespond([server EXCEPT !.del.user = user], 400)
       ELSE server' = [server EXCEPT !.del.user = user, !.del.pc = "getScan"]
    /\ UNCHANGED <<scanVars, calc, site, other>>

\* await storage.getScan(scanId) settles: 404 without a row, 403 for the
\* scan of another user, else storage.deleteScan is called.  With MemStorage
\* no await of the handler waits for I/O, so the rest of the handler
\* (deleteScan, createSecurityEvent, the 200) has run before doScan, which
\* waits for a fetch or a timer, takes another step
DeleteGetScan(ok) ==
    /\ server.del.pc = "getScan"
    /\ IF ~ok
       THEN server' = DeleteRespond(server, 500)
       ELSE IF ~server.scan.exists
       THEN server' = DeleteRespond(server, 404)
       ELSE IF server.del.user # ScanOwner
       THEN server' = DeleteRespond(server, 403)
       ELSE IF server.storage = "memory"
       THEN server' = DeleteRespond(
                         [MemDeleteScan(server) EXCEPT
                            !.securityEvents = Append(@, "scan_deleted")],
                         200)
       ELSE server' = [server EXCEPT !.del.pc = "deleteVulnerabilities"]
    /\ UNCHANGED <<scanVars, calc, site, other>>

\* DatabaseStorage.deleteScan, first statement: await
\* this.deleteVulnerabilitiesByScanId(id)
DeleteVulnerabilities(ok) ==
    /\ server.del.pc = "deleteVulnerabilities"
    /\ IF ~ok
       THEN server' = DeleteRespond(server, 500)
       ELSE server' = [server EXCEPT !.vulnerabilityRows = <<>>,
                                     !.del.pc = "deleteRow"]
    /\ UNCHANGED <<scanVars, calc, site, other>>

\* DatabaseStorage.deleteScan, second statement: await db.delete(scans); the
\* database refuses it while a vulnerability row still references the scan
DeleteRow(ok) ==
    /\ server.del.pc = "deleteRow"
    /\ IF ~ok \/ server.vulnerabilityRows # <<>>
       THEN server' = DeleteRespond(server, 500)
       ELSE server' = [server EXCEPT !.scan = NoRow,
                                     !.del.deleted = TRUE,
                                     !.del.pc = "logDeleted"]
    /\ UNCHANGED <<scanVars, calc, site, other>>

\* await storage.createSecurityEvent({type: 'scan_deleted', ...}) settles,
\* and the handler answers 200
DeleteLogged(ok) ==
    /\ server.del.pc = "logDeleted"
    /\ IF ~ok
       THEN server' = DeleteRespond(server, 500)
       ELSE server' = DeleteRespond(
                         [server EXCEPT !.securityEvents = Append(@, "scan_deleted")],
                         200)
    /\ UNCHANGED <<scanVars, calc, site, other>>

DeleteNext ==
    \/ \E ok \in StorageAnswers : CreateScanRecord(ok)
    \/ SendCreated
    \/ \E ok \in StorageAnswers : MarkRunning(ok)
    \/ \E ok \in StorageAnswers : GetCustomRules(ok)
    \/ CallRunScan
    \/ ScanStep
    \/ RunScanSettled
    \/ \E ok \in StorageAnswers : StoreVulnerability(ok)
    \/ \E ok \in StorageAnswers : MarkCompleted(ok)
    \/ \E ok \in StorageAnswers : LogCompleted(ok)
    \/ \E ok \in StorageAnswers : CatchMarkFailed(ok)
    \/ \E ok \in StorageAnswers : LogFailed(ok)
    \/ \E a \in BOOLEAN, idOk \in BOOLEAN, u \in {ScanOwner, OtherUser} :
          DeleteRequested(a, idOk, u)
    \/ \E ok \in StorageAnswers : DeleteGetScan(ok)
    \/ \E ok \in StorageAnswers : DeleteVulnerabilities(ok)
    \/ \E ok \in StorageAnswers : DeleteRow(ok)
    \/ \E ok \in StorageAnswers : DeleteLogged(ok)

DeleteSpec == DeleteInit /\ [][DeleteNext]_vars


\* ------------------------------------- calculateSummary on its own lists

Severities == {"high", "medium", "low", "safe"}

Reorderings(n) == { p \in [1..n -> 1..n] : \A i, j \in 1..n : p[i] = p[j] => i = j }

RECURSIVE Repeat(_, _)
Repeat(s, k) == IF k <= 0 THEN <<>> ELSE s \o Repeat(s, k - 1)

NoSummary == [totalVulnerabilities |-> -1]

\* a list of findings and a reordering of it: a base list of at most
\* MaxFindings findings, in two orders, each repeated up to MaxRepeat times
SummaryInit ==
    /\ options = [url |-> SeedSlash, scanLevel |-> "quick", crawlLimit |-> 1,
                  useAuthentication |-> FALSE, includeCustomRules |-> FALSE,
                  customRules |-> <<>>]
    /\ FieldsInit
    /\ site = NoSite
    /\ other = NoScanner
    /\ server = NoServer
    /\ \E n \in 0..MaxFindings :
         \E base \in [1..n -> Severities], perm \in Reorderings(n), k \in 1..MaxRepeat :
            calc = [pc |-> "input",
                    F |-> Repeat([i \in 1..n |-> [severity |-> base[i]]], k),
                    G |-> Repeat([i \in 1..n |-> [severity |-> base[perm[i]]]], k),
                    sumF |-> NoSummary,
                    sumG |-> NoSummary]

Summarise ==
    /\ calc.pc = "input"
    /\ calc' = [calc EXCEPT !.pc = "first", !.sumF = calculateSummary(calc.F)]
    /\ UNCHANGED <<scanVars, site, other, server>>

SummarisePermuted ==
    /\ calc.pc = "first"
    /\ calc' = [calc EXCEPT !.pc = "done", !.sumG = calculateSummary(calc.G)]
    /\ UNCHANGED <<scanVars, site, other, server>>

SummaryNext == Summarise \/ SummarisePermuted

SummarySpec == SummaryInit /\ [][SummaryNext]_vars

\* ------------------------------------------------------------ properties

\* number of findings of a list with the given severity, counted from the head
RECURSIVE Occurrences(_, _)
Occurrences(fs, sev) ==
    IF fs = <<>>
    THEN 0
    ELSE (IF Head(fs).severity = sev THEN 1 ELSE 0) + Occurrences(Tail(fs), sev)

Clamp(x, lo, hi) == IF x < lo THEN lo ELSE IF x > hi THEN hi ELSE x

\* the score the specification gives a list of findings
SpecifiedScore(fs) ==
    Clamp(100 - 10 * Occurrences(fs, "high") - 5 * Occurrences(fs, "medium")
              - 2 * Occurrences(fs, "low"), 0, 100)

SeedOk == ParseURL(options.url).ok

FetchedUrls == [i \in 1..Len(fetchLog) |-> fetchLog[i].url]

\* C1: a scan that ran to completion visited at most max(1, pageBudget) URLs,
\* and the scannedUrls list it returns holds no URL twice.
C1_VisitedWithinBudget ==
    pc = "done" =>
        /\ Len(visited) <= Max(1, options.crawlLimit)
        /\ result.scannedUrls = visited
        /\ NoDuplicates(result.scannedUrls)

\* a completed scan that used its whole budget of several pages, one of them
\* failing, with discovered URLs left in the frontier
C1_Witness ==
    /\ pc = "done"
    /\ options.crawlLimit >= 2
    /\ Len(result.scannedUrls) = options.crawlLimit
    /\ Len(queue) > 0
    /\ \E i \in 1..Len(fetchLog) : fetchLog[i].state = "rejected"

\* C2: no page is fetched twice in one scan: no URL is pushed onto the frontier
\* twice, no two GETs ask for the same page, and a page that was visited (the
\* seed included) is not put on the frontier again under any spelling.
C2_NoPageFetchedTwice ==
    /\ NoDuplicates(pushed)
    /\ \A i, j \in 1..Len(fetchLog) :
          PageOf(fetchLog[i].url) = PageOf(fetchLog[j].url) => i = j
    /\ \A i \in 1..Len(visited), j \in 1..Len(queue) :
          PageOf(visited[i]) # PageOf(queue[j])

\* C3: every URL of the frontier and of the visited set has the scheme and the
\* host of the seed URL.
C3_SameOrigin ==
    SeedOk =>
        \A u \in Range(queue) \cup Range(visited) :
            /\ ParseURL(u).ok
            /\ ParseURL(u).protocol = ParseURL(options.url).protocol
            /\ ParseURL(u).host = ParseURL(options.url).host

\* C4: with a page budget of 0 or less the scan runs with a budget of 1: the
\* seed is dequeued, marked visited and fetched, and nothing else is visited.
C4_BudgetCoercedToOne ==
    (SeedOk /\ options.crawlLimit <= 0) =>
        /\ pc \in {"loop", "fetching", "done"} => maxPages = 1
        /\ pc = "done" =>
              /\ result.scannedUrls = <<options.url>>
              /\ FetchedUrls = <<options.url>>
              /\ fetchLog[1].state # "pending"

\* a completed scan with budget <= 0 whose seed page offered further URLs
C4_Witness ==
    /\ pc = "done"
    /\ options.crawlLimit <= 0
    /\ Len(queue) > 0
    /\ result.scannedUrls = <<options.url>>

\* C5: in a quick scan link extraction never runs, nothing but the seed is ever
\* pushed onto the frontier, and at most one URL is visited.
C5_QuickVisitsSeedOnly ==
    options.scanLevel = "quick" =>
        /\ extractCalls = 0
        /\ Range(pushed) \subseteq {options.url}
        /\ Range(queue) \subseteq {options.url}
        /\ Len(visited) <= 1

\* a completed quick scan with a budget of several pages whose seed page was
\* fetched and carries links
C5_Witness ==
    /\ options.scanLevel = "quick"
    /\ options.crawlLimit >= 2
    /\ pc = "done"
    /\ Len(fetchLog) = 1
    /\ fetchLog[1].state = "resolved"
    /\ fetchLog[1].outcome.body = HomePage

\* the findings of a list that are about the given URL
FindingsFor(vs, url) == { i \in 1..Len(vs) : vs[i].url = url }

\* C6 (state part): a URL whose fetch failed has exactly one finding, the
\* 'URL Access Error' with the error message in its details.
C6_OneFindingPerFailure ==
    \A i \in 1..Len(fetchLog) :
        fetchLog[i].state = "rejected" =>
            /\ Cardinality(FindingsFor(vulnerabilities, fetchLog[i].url)) = 1
            /\ \A k \in FindingsFor(vulnerabilities, fetchLog[i].url) :
                  /\ vulnerabilities[k].name = "URL Access Error"
                  /\ vulnerabilities[k].category = "Accessibility"
                  /\ vulnerabilities[k].severity = "low"
                  /\ vulnerabilities[k].status = "pending"
                  /\ vulnerabilities[k].details.error =
                        ErrorMessage(AxiosGet(fetchLog[i].outcome).error)

\* C6 (step part): the step in which a fetch fails appends one finding and
\* leaves the frontier as the dequeue left it.
C6_FailureStep ==
    (pc = "fetching" /\ fetchLog'[Len(fetchLog)].state = "rejected") =>
        /\ queue' = queue
        /\ pushed' = pushed
        /\ Len(vulnerabilities') = Len(vulnerabilities) + 1
        /\ vulnerabilities'[Len(vulnerabilities')].url = currentUrl

\* C6: for every visited URL whose fetch fails the engine appends exactly one
\* finding for it (URL Access Error, Accessibility, low, pending, details with
\* the error message) and pushes nothing onto the frontier in that iteration.
C6_FetchFailureFinding == [] C6_OneFindingPerFailure /\ [][C6_FailureStep]_vars

\* a later page of a crawl failed while other URLs were waiting in the frontier
C6_Witness ==
    /\ Len(fetchLog) >= 2
    /\ fetchLog[Len(fetchLog)].state = "rejected"
    /\ pc = "loop"
    /\ Len(queue) > 0
    /\ Len(vulnerabilities) >= 2

\* C7: once constructed, run() never throws and never stops short of its
\* return; it returns a result with the visited list, the findings and the
\* summary, and a scan whose seed could not
\* be fetched returns exactly one Accessibility finding and lowSeverity >= 1.
C7_RunNeverThrows ==
    SeedOk =>
        /\ pc # "threw"
        /\ thrown = ""
        /\ pc \in {"constructed", "loop", "fetching"} => ENABLED Next
        /\ pc = "done" =>
              /\ result.returned
              /\ result.scannedUrls = visited
              /\ result.vulnerabilities = vulnerabilities
              /\ result.summary.totalVulnerabilities = Len(vulnerabilities)
        /\ (pc = "done" /\ fetchLog # <<>> /\ fetchLog[1].state = "rejected") =>
              /\ Len(result.vulnerabilities) = 1
              /\ result.vulnerabilities[1].category = "Accessibility"
              /\ result.vulnerabilities[1].severity = "low"
              /\ result.summary.lowSeverity >= 1

\* a scan returned although a custom rule did not compile on a page with a
\* malformed href and the fetch of the next page failed
C7_Witness ==
    /\ pc = "done"
    /\ result.returned
    /\ options.includeCustomRules
    /\ \E i \in 1..Len(customRules) :
          customRules[i].enabled /\ ~RegExpCompiles(customRules[i].pattern)
    /\ Len(fetchLog) = 2
    /\ fetchLog[1].state = "resolved"
    /\ fetchLog[1].outcome.body = JunkPage
    /\ fetchLog[2].state = "rejected"

C9_SecurityScore ==
    /\ calc.pc \in {"first", "done"} =>
          /\ calc.sumF.securityScore = SpecifiedScore(calc.F)
          /\ calc.sumF.securityScore \in 0..100
    /\ calc.pc = "done" =>
          /\ calc.sumG.securityScore = calc.sumF.securityScore
          /\ calc.sumG.securityScore = SpecifiedScore(calc.G)

\* a list whose weighted sum passes 100 was scored 0, in two different orders
C9_Witness ==
    /\ calc.pc = "done"
    /\ calc.F # calc.G
    /\ 10 * Occurrences(calc.F, "high") + 5 * Occurrences(calc.F, "medium")
          + 2 * Occurrences(calc.F, "low") > 100
    /\ calc.sumG.securityScore = 0

\* C10: in a scan result totalVulnerabilities is the length of the findings
\* list and the three severity counts are the numbers of findings of that
\* severity; a finding of another severity adds to the total only and leaves
\* the score where the high, medium and low findings put it.
C10_SummaryCounts ==
    pc = "done" =>
        LET fs == result.vulnerabilities
            sm == result.summary
            others == Cardinality({ i \in 1..Len(fs) :
                                      fs[i].severity \notin {"high", "medium", "low"} })
        IN  /\ sm.totalVulnerabilities = Len(fs)
            /\ sm.highSeverity = Occurrences(fs, "high")
            /\ sm.mediumSeverity = Occurrences(fs, "medium")
            /\ sm.lowSeverity = Occurrences(fs, "low")
            /\ sm.totalVulnerabilities
                  = sm.highSeverity + sm.mediumSeverity + sm.lowSeverity + others
            /\ sm.totalVulnerabilities
                  >= sm.highSeverity + sm.mediumSeverity + sm.lowSeverity
            /\ sm.securityScore
                  = Clamp(100 - 10 * sm.highSeverity - 5 * sm.mediumSeverity
                              - 2 * sm.lowSeverity, 0, 100)

\* a returned result with a 'safe' finding from a custom rule next to findings
\* of the three counted severities
C10_Witness ==
    /\ pc = "done"
    /\ \E i \in 1..Len(result.vulnerabilities) :
          result.vulnerabilities[i].severity = "safe"
    /\ result.summary.highSeverity > 0
    /\ result.summary.lowSeverity > 0
    /\ result.summary.totalVulnerabilities
          > result.summary.highSeverity + result.summary.mediumSeverity
              + result.summary.lowSeverity

\* the findings of a list that a custom rule produced
CustomIdx(vs) == { k \in 1..Len(vs) : "rule" \in DOMAIN vs[k].details }

\* the finding is the one the rule reports for the page
IsFindingOf(f, rule, url) ==
    /\ f.name = rule.name
    /\ f.severity = rule.severity
    /\ f.category = rule.category
    /\ f.url = url
    /\ f.status = "pending"
    /\ f.details = [rule |-> rule.id, matched |-> TRUE]

\* the fetches whose response went through custom-rule evaluation
EvaluatedFetches ==
    { i \in 1..Len(fetchLog) :
        /\ fetchLog[i].state = "resolved"
        /\ ~fetchLog[i].outcome.body.detectorFails
        /\ options.includeCustomRules }

\* C11: every finding a custom rule produced carries the name, severity and
\* category of an enabled rule whose pattern matches the body of a page that
\* was fetched, the URL of that page, status 'pending' and details
\* {rule: id, matched: true}; and every enabled rule that matched an
\* evaluated page has such a finding.
C11_CustomFindingFields ==
    /\ \A k \in CustomIdx(vulnerabilities) :
          \E i \in 1..Len(fetchLog), r \in 1..Len(customRules) :
              /\ fetchLog[i].state = "resolved"
              /\ customRules[r].enabled
              /\ customRules[r].pattern \in fetchLog[i].outcome.body.text
              /\ IsFindingOf(vulnerabilities[k], customRules[r], fetchLog[i].url)
    /\ \A i \in EvaluatedFetches, r \in 1..Len(customRules) :
          (customRules[r].enabled
             /\ customRules[r].pattern \in fetchLog[i].outcome.body.text) =>
              \E k \in CustomIdx(vulnerabilities) :
                  IsFindingOf(vulnerabilities[k], customRules[r], fetchLog[i].url)

\* a fetched page matched the 'high' rule and the 'safe' rule, and both
\* findings are in the list
C11_Witness ==
    /\ \E i \in EvaluatedFetches :
          /\ fetchLog[i].outcome.body = BackPage
          /\ \E k1, k2 \in CustomIdx(vulnerabilities) :
                /\ IsFindingOf(vulnerabilities[k1], RulePassword, fetchLog[i].url)
                /\ IsFindingOf(vulnerabilities[k2], RuleInfo, fetchLog[i].url)

\* an enabled rule whose pattern new RegExp() rejects
FailingRule(rule) == rule.enabled /\ ~RegExpCompiles(rule.pattern)

\* the rule list with the failing rules taken out
WithoutFailing(rules) == SelectSeq(rules, LAMBDA rule : ~FailingRule(rule))

\* C12 (step): the step that handles a fetched page whose detection returned
\* appends the detector's findings and then exactly the custom findings the
\* rule list without its failing rules gives, raises nothing, and goes on
\* with the loop.
C12_Step ==
    (pc = "fetching" /\ fetchLog'[Len(fetchLog)].state = "resolved"
       /\ ~fetchLog'[Len(fetchLog)].outcome.body.detectorFails) =>
        LET response == AxiosGet(fetchLog'[Len(fetchLog)].outcome).response
        IN  /\ pc' = "loop"
            /\ thrown' = thrown
            /\ vulnerabilities' =
                  vulnerabilities
                  \o detectVulnerabilities(currentUrl, response, scanLevel).value
                  \o CustomFindings(options, WithoutFailing(customRules),
                                    currentUrl, response.data).found

\* C12: a rule whose pattern fails to compile is skipped alone: the rules
\* before and after it are evaluated on the page and the scan goes on with
\* the findings it would have had without the failing rule.
C12_FailingRuleSkippedAlone == [][C12_Step]_vars

\* a page was evaluated with a failing rule between two matching rules: the
\* findings of the rule before it and of the rule after it close the list, no
\* Accessibility finding was made, and the loop goes on with a non-empty
\* frontier
C12_Witness ==
    /\ pc = "loop"
    /\ Len(queue) > 0
    /\ options.includeCustomRules
    /\ \E r \in 2..(Len(customRules) - 1) :
          /\ FailingRule(customRules[r])
          /\ Len(vulnerabilities) >= 2
          /\ IsFindingOf(vulnerabilities[Len(vulnerabilities) - 1],
                         customRules[r - 1], currentUrl)
          /\ IsFindingOf(vulnerabilities[Len(vulnerabilities)],
                         customRules[r + 1], currentUrl)
    /\ \A k \in 1..Len(vulnerabilities) : vulnerabilities[k].category # "Accessibility"

\* an enabled rule whose pattern compiles and matches the body
Matches(rule, body) ==
    rule.enabled /\ RegExpCompiles(rule.pattern) /\ rule.pattern \in body.text

AskedBudget == IF options.crawlLimit <= 0 THEN 1 ELSE options.crawlLimit

\* the distinct same-origin URLs, other than the seed, that the hrefs of a
\* body resolve to (hrefs the extractor skips or cannot resolve left out)
SameOriginLinks(body, pageUrl) ==
    { Href(ResolveURL(body.links[i], pageUrl)) :
        i \in { j \in 1..Len(body.links) :
                  /\ ~SkippedLink(body.links[j])
                  /\ ResolveURL(body.links[j], pageUrl).ok
                  /\ ResolveURL(body.links[j], pageUrl).protocol
                        = ParseURL(pageUrl).protocol
                  /\ ResolveURL(body.links[j], pageUrl).host = ParseURL(pageUrl).host } }
    \ {pageUrl}

\* the seed page was fetched and handled, and offers enough URLs to fill the
\* budget
SeedFillsBudget ==
    /\ SeedOk
    /\ options.scanLevel # "quick"
    /\ fetchLog # <<>>
    /\ fetchLog[1].state = "resolved"
    /\ ~fetchLog[1].outcome.body.detectorFails
    /\ Cardinality(SameOriginLinks(fetchLog[1].outcome.body, options.url))
          >= AskedBudget - 1

C15_FetchOrderIsEnqueueOrder ==
    /\ Len(fetchLog) <= Len(pushed)
    /\ FetchedUrls = SubSeq(pushed, 1, Len(fetchLog))
    /\ visited = FetchedUrls
    /\ queue = SubSeq(pushed, Len(fetchLog) + 1, Len(pushed))
    /\ \A i, j \in 1..Len(fetchLog) :
          i < j => DepthOf(pushed, depths, fetchLog[i].url)
                     <= DepthOf(pushed, depths, fetchLog[j].url)
    /\ \A i \in 1..Len(fetchLog), j \in 1..Len(queue) :
          DepthOf(pushed, depths, fetchLog[i].url) <= DepthOf(pushed, depths, queue[j])

\* two pages found on the seed page were fetched one after the other while a
\* URL found on the first of them was waiting behind the second
C15_Witness ==
    /\ Len(fetchLog) = 3
    /\ DepthOf(pushed, depths, fetchLog[2].url) = 1
    /\ DepthOf(pushed, depths, fetchLog[3].url) = 1
    /\ \E j \in 1..Len(queue) : DepthOf(pushed, depths, queue[j]) = 2

\* C16: every scan whose seed parses returns, given that every fetch settles;
\* and when it has returned the frontier is empty or the number of visited
\* URLs has reached the coerced budget.
C16_ScanTerminates ==
    /\ SeedOk => <>(pc = "done")
    /\ [](pc = "done" => (queue = <<>> \/ Len(visited) >= maxPages))

\* a scan that returned below its budget because the frontier ran empty, after
\* more than one fetch
C16_Witness ==
    /\ pc = "done"
    /\ queue = <<>>
    /\ Len(visited) < maxPages
    /\ Len(fetchLog) >= 2

\* the answers the site gave in this scan, by URL
AnswersGiven ==
    [u \in Range(FetchedUrls) |->
        fetchLog[CHOOSE i \in 1..Len(fetchLog) : fetchLog[i].url = u].outcome]

\* the options of this scan with useAuthentication the other way round
OtherAuthentication ==
    [options EXCEPT !.useAuthentication = ~options.useAuthentication]

\* C20: a scan and the scan that differs from it only in useAuthentication,
\* run against the same answers of the site, issue the same GETs in the same
\* order and return the same visited list, findings and summary (or both
\* reject the seed).
C20_UseAuthenticationInert ==
    /\ pc = "done" =>
          LET twin == runScan(OtherAuthentication, AnswersGiven)
          IN  /\ ~twin.threw
              /\ twin.fetched = FetchedUrls
              /\ twin.scannedUrls = result.scannedUrls
              /\ twin.vulnerabilities = result.vulnerabilities
              /\ twin.summary = result.summary
    /\ pc = "threw" => runScan(OtherAuthentication, AnswersGiven).threw

\* a scan with useAuthentication set that fetched three pages, evaluated
\* custom rules and made several findings
C20_Witness ==
    /\ pc = "done"
    /\ options.useAuthentication
    /\ options.includeCustomRules
    /\ Len(fetchLog) = 3
    /\ CustomIdx(result.vulnerabilities) # {}
    /\ Len(result.vulnerabilities) >= 3

\* the scan goes the way it goes when it runs alone against the site: the GETs
\* and findings so far are the first ones of the run alone, and what it has
\* returned is what the run alone returns
AsAlone(scanner) ==
    LET alone == runScan(scanner.options, site)
        fetched == [i \in 1..Len(scanner.fetchLog) |-> scanner.fetchLog[i].url]
    IN  /\ ~alone.threw
        /\ scanner.pc # "threw"
        /\ StartsWith(alone.fetched, fetched)
        /\ StartsWith(alone.vulnerabilities, scanner.vulnerabilities)
        /\ scanner.pc = "done" =>
              /\ alone.fetched = fetched
              /\ alone.frontier = scanner.queue
              /\ alone.scannedUrls = scanner.visited
              /\ alone.scannedUrls = scanner.result.scannedUrls
              /\ alone.vulnerabilities = scanner.result.vulnerabilities
              /\ alone.summary = scanner.result.summary

\* C19: of two scans that run at the same time against one site, each issues
\* the GETs and returns the visited list, frontier, findings and summary of
\* its run alone against that site, however the two are interleaved.
C19_ConcurrentScansIsolated == AsAlone(ThisScanner) /\ AsAlone(other)

\* both scans are under way at once: each has handled its first page and made
\* findings, and each has its second GET in flight
C19_Witness ==
    /\ pc = "fetching"
    /\ other.pc = "fetching"
    /\ Len(fetchLog) = 2
    /\ Len(other.fetchLog) = 2
    /\ vulnerabilities # <<>>
    /\ other.vulnerabilities # <<>>

\* C17: the persisted status of a scan goes pending, running, and then
\* completed or failed, and stays there; and a doScan that has ended has left
\* the scan completed or failed.
C17_StatusLifecycle ==
    /\ server.statusLog \in { <<>>, <<"pending">>, <<"pending", "running">>,
                              <<"pending", "running", "completed">>,
                              <<"pending", "running", "failed">> }
    /\ server.pc \in {"finished", "rejected"} =>
          server.scan.status \in {"completed", "failed"}

\* the request has been answered
Answered == server.pc \notin {"request", "created"}

\* C18 (state): a request is answered once, as soon as the handler is through
\* with it; the answer to an accepted request is the 201 with the scan as
\* created, status 'pending'; and nothing of the background scan (status
\* 'running', runScan, a GET) exists before it.
C18_AnsweredOnce ==
    /\ Len(server.responses) = (IF Answered THEN 1 ELSE 0)
    /\ server.scan.exists /\ Answered =>
          server.responses = << [status |-> 201, scanStatus |-> "pending"] >>
    /\ ~Answered =>
          /\ server.scan.status \in {"none", "pending"}
          /\ "running" \notin Range(server.statusLog)
          /\ pc = "new"
          /\ fetchLog = <<>>

\* C18: createScan answers 201 with the pending scan before the status is
\* set to 'running' and before the first GET; one response per request; and
\* whatever happens to the background scan, the response stays as sent.
C18_AcknowledgedBeforeCrawl ==
    [] C18_AnsweredOnce /\ [][server.responses # <<>> =>
                                  server'.responses = server.responses]_vars

\* the 201 was sent, the crawl fetched pages, and then the background scan
\* lost its storage: the promise of doScan is rejected
C18_Witness ==
    /\ server.pc = "rejected"
    /\ server.responses = << [status |-> 201, scanStatus |-> "pending"] >>
    /\ Len(fetchLog) >= 2
    /\ server.scan.status = "running"

\* the fetches whose response was handled to the end of the try block
HandledFetches ==
    { i \in 1..Len(fetchLog) :
        /\ fetchLog[i].state = "resolved"
        /\ ~fetchLog[i].outcome.body.detectorFails }

\* the list holds a 'URL Access Error' finding for the URL
HasAccessError(vs, url) ==
    \E k \in 1..Len(vs) : vs[k].url = url /\ vs[k].name = "URL Access Error"

C22_CustomRulesGated ==
    /\ ~options.includeCustomRules => CustomIdx(vulnerabilities) = {}
    /\ \A k \in CustomIdx(vulnerabilities), r \in 1..Len(customRules) :
          vulnerabilities[k].details.rule = customRules[r].id => customRules[r].enabled
    /\ pc = "done" =>
          \A k \in CustomIdx(result.vulnerabilities) :
              /\ options.includeCustomRules
              /\ \E r \in 1..Len(options.customRules) :
                    /\ options.customRules[r].id = result.vulnerabilities[k].details.rule
                    /\ options.customRules[r].enabled

\* a scan without includeCustomRules that was handed rules returned after it
\* analysed two pages that the enabled rules and the disabled rule match, with
\* no custom finding
C22_Witness ==
    /\ pc = "done"
    /\ ~options.includeCustomRules
    /\ Len(customRules) > 0
    /\ Cardinality({ i \in HandledFetches :
                       /\ Matches(RulePassword, fetchLog[i].outcome.body)
                       /\ RuleDisabled.pattern \in fetchLog[i].outcome.body.text }) >= 2
    /\ CustomIdx(result.vulnerabilities) = {}

\* C23: the frontier and the visited set are disjoint and neither holds a URL
\* twice, so the URL at the head of the queue is never a visited one; every
\* URL that left the queue went into visited and had its GET issued (the
\* skip branch of the loop was never taken).
C23_FrontierDisjointFromVisited ==
    /\ Range(queue) \cap Range(visited) = {}
    /\ NoDuplicates(queue)
    /\ NoDuplicates(visited)
    /\ queue # <<>> => Head(queue) \notin Range(visited)
    /\ Len(pushed) = Len(visited) + Len(queue)
    /\ Len(fetchLog) = Len(visited)

\* the second page of a crawl linked back to the seed and to itself under
\* another spelling: the seed was not put on the frontier again, and the loop
\* goes on with a non-empty frontier
C23_Witness ==
    /\ pc = "loop"
    /\ Len(fetchLog) = 2
    /\ fetchLog[2].state = "resolved"
    /\ fetchLog[2].outcome.body = BackPage
    /\ options.url = SeedSlash
    /\ extractCalls = 2
    /\ queue # <<>>
    /\ options.url \notin Range(queue)

\* C24: a URL is in the visited set from the moment its GET is issued, so
\* every GET, pending, resolved or rejected, is of a visited URL and counts
\* against the budget; a URL whose GET was rejected is in the returned
\* scannedUrls, and at return the number of GETs issued is visited.size.
C24_VisitedBeforeFetch ==
    /\ Len(fetchLog) <= Len(visited)
    /\ \A i \in 1..Len(fetchLog) : i <= Len(visited) /\ fetchLog[i].url = visited[i]
    /\ pc = "fetching" => currentUrl \in Range(visited)
    /\ pc \in {"loop", "fetching", "done"} => Len(visited) <= maxPages
    /\ pc = "done" =>
          /\ Len(fetchLog) = Len(visited)
          /\ Len(result.scannedUrls) = Len(fetchLog)
          /\ \A i \in 1..Len(fetchLog) :
                fetchLog[i].state = "rejected" =>
                    fetchLog[i].url \in Range(result.scannedUrls)

\* a scan with a budget of two returned after both of its GETs were rejected,
\* with both URLs in scannedUrls and a third URL left on the frontier
C24_Witness ==
    /\ pc = "done"
    /\ maxPages = 2
    /\ Len(fetchLog) = 2
    /\ fetchLog[2].state = "rejected"
    /\ Len(result.scannedUrls) = 2
    /\ queue # <<>>

\* the findings the engine returned, as createVulnerability stores them
FindingsAsStored ==
    [k \in 1..Len(server.scanResult.vulnerabilities) |->
        [server.scanResult.vulnerabilities[k] EXCEPT !.scanId = server.scanObj.id]]

\* C25: an accepted scan is never left in a partial state: while its record
\* says 'failed' no vulnerability record of it is stored, and while it says
\* 'completed' every finding the engine returned is stored.
C25_NoPartialPersistedState ==
    /\ server.scan.status = "failed" => server.vulnerabilityRows = <<>>
    /\ server.scan.status = "completed" =>
          server.vulnerabilityRows = FindingsAsStored

C27_BudgetCappedAtFive ==
    /\ options # IdleOptions =>
          /\ options.crawlLimit = Min(server.request.crawlLimit, DemoPageCap)
          /\ options.crawlLimit <= DemoPageCap
    /\ Len(visited) <= Min(server.request.crawlLimit, DemoPageCap)
    /\ Len(fetchLog) <= Min(server.request.crawlLimit, DemoPageCap)
    /\ server.scan.status = "completed" =>
          /\ server.scan.result.totalPages <= DemoPageCap
          /\ Len(server.scan.result.scannedUrls) <= DemoPageCap
    /\ server.scan.exists => server.scan.crawlLimit = server.request.crawlLimit

\* an 'unlimited' scan of the hub site completed after five pages, with
\* links still waiting in the frontier, and the row still says 9999
C27_Witness ==
    /\ server.scan.status = "completed"
    /\ server.request.crawlLimit = UnlimitedCrawl
    /\ server.scan.crawlLimit = UnlimitedCrawl
    /\ server.scan.result.totalPages = DemoPageCap
    /\ queue # <<>>

\* the fetches whose GET resolved (a response with a status below 500)
ResolvedFetches == { i \in 1..Len(fetchLog) : fetchLog[i].state = "resolved" }

\* C28: a 'URL Access Error' finding is listed only for a URL whose GET was
\* rejected; a page whose GET resolved has no such finding, also when the
\* built-in detector raised on it, and on a scan that is not quick its links
\* have gone through extractLinks.
C28_AccessErrorOnlyOnFetchFailure ==
    /\ \A k \in 1..Len(vulnerabilities) :
          vulnerabilities[k].name = "URL Access Error" =>
              \E i \in 1..Len(fetchLog) :
                  /\ fetchLog[i].url = vulnerabilities[k].url
                  /\ fetchLog[i].state = "rejected"
    /\ \A i \in ResolvedFetches :
          /\ ~HasAccessError(vulnerabilities, fetchLog[i].url)
          /\ options.scanLevel # "quick" =>
                SameOriginLinks(fetchLog[i].outcome.body, fetchLog[i].url)
                    \subseteq Range(pushed)
    /\ options.scanLevel # "quick" => extractCalls = Cardinality(ResolvedFetches)

\* no updateTask handler is between its request and its response
TasksQuiet == \A h \in 1..MaxConcurrent : server.handlers[h].pc \in {"idle", "closed"}

\* C29: completion is propagated exactly on the transition into
\* 'completed'.  There are never more 'task_completed' events than writes
\* that took the task from another status to 'completed'; once the handlers
\* have answered there is one event per such write and, for a linked task
\* that was completed, the vulnerability is 'fixed' (also after the task was
\* re-opened); without such a write the vulnerability's status is the one it
\* had.
C29_CompletionPropagatedOnce ==
    /\ Len(server.securityEvents) <= server.transitions
    /\ server.transitions = 0 =>
          server.vulnerability.status = server.vulnerabilityBefore
    /\ server.task.vulnerabilityId = NoVulnerability =>
          server.vulnerability.status = server.vulnerabilityBefore
    /\ TasksQuiet =>
          /\ Len(server.securityEvents) = server.transitions
          /\ (server.transitions > 0
                 /\ server.task.vulnerabilityId # NoVulnerability) =>
                server.vulnerability.status = "fixed"

====
